---- MODULE Spec2Model ----
(***************************************************************************)
(* Model of the securechat messaging core.                                 *)
(*                                                                         *)
(*  - pkg/crypto/encryption.go: the DoubleRatchet session (two sessions,   *)
(*    "A" and "B"), with the hash, HKDF, X25519 and AEAD primitives as     *)
(*    free symbolic terms: a byte string is a sequence of integers, bytes  *)
(*    are 0..255 and the values above 255 are the brackets of a term.      *)
(*    Distinct terms are distinct byte strings (no collisions).            *)
(*  - core App.SendMessage and network Client.SendMessage: the outbound    *)
(*    path of a chat message.                                              *)
(***************************************************************************)
EXTENDS Integers, Sequences, FiniteSets, TLC

\* ------------------------------------------------------------------ bounds
\* state-changing session calls (Encrypt, accepted Decrypt, PerformDHRatchet)
\* over both sessions; the uint32 counters stay far below their wrap at 2^32
MaxSteps == 3
\* PerformDHRatchet steps over both sessions
MaxRatchet == 1
\* capacity of the modelled outgoing queue, messages written to the relay
MaxQueue == 2
MaxWire == 3
\* client: maxReconnectAttempts (10 by default), scaled; the capacity of the
\* modelled connectionEvents (10 in the source); attemptReconnection
\* goroutines that run at once
MaxReconnect == 3
EventCap == 2
MaxLoops == 2
\* relay: connections accepted, frames received over all connections
MaxConns == 2
MaxFrames == 3
\* relay: frames received over all connections while no connection fails
MaxFramesUp == 4
\* relay, with time: connections accepted and frames received
MaxLive == 1
MaxFramesLive == 1
\* relay: capacity of the modelled ServerClient.Send (256 in the source) and
\* of the modelled Server.messageQueue (1000 in the source)
SendCap == 2
RouteCap == 2
\* the burst of the rate limit (20 in the claim), scaled
RateBurst == 1

\* keys: NewApp runs over one data directory, GenerateOneTimeKeys calls and
\* the largest count they are called with
MaxRuns == 3
MaxOneTimeCalls == 2
MaxCount == 2
\* keys: values the random source hands out for each key of an identity
\* that GetSafetyNumber is called with
MaxKeys == 3
\* chat view: the longest input line and the most messages in the list
MaxInput == 2
MaxMessages == 3

Sides == {"A", "B"}
LoopIDs == 1..MaxLoops
ConnIDs == 1..(IF MaxLive > MaxConns THEN MaxLive ELSE MaxConns)
\* the read deadline of ServerClient.readMessages and the ping period of
\* ServerClient.writeMessages, in seconds
ReadWait == 60
PingPeriod == 54
\* the default reconnectDelay of NewClient and the cap of the delay in
\* attemptReconnection, in seconds
reconnectDelay == 5
MaxBackoff == 60
Peer(s) == IF s = "A" THEN "B" ELSE "A"

\* ------------------------------------------------------- symbolic byte terms
TagSha == 256
TagEnd == 257
TagSep == 258
TagHkdf == 259
TagRand == 260
TagPub == 261
TagDH == 262
TagInfoRootChain == 263
TagEdPub == 264

\* make([]byte, 32)
Zero32 == [i \in 1..32 |-> 0]

\* []byte{byte(n), byte(n >> 8), byte(n >> 16), byte(n >> 24)}
LE32(n) == <<n % 256, (n \div 256) % 256, (n \div 65536) % 256, (n \div 16777216) % 256>>

\* sha256 over the concatenation of everything written to it
sha256(x) == <<TagSha>> \o x \o <<TagEnd>>

\* the i-th 32-byte block read from hkdf.New(sha256.New, secret, salt, info)
hkdfBlock(secret, salt, info, i) ==
    <<TagHkdf, i>> \o secret \o <<TagSep>> \o salt \o <<TagSep>> \o info \o <<TagEnd>>

\* 32 bytes from rand.Read: the k-th value of the generator
RandBytes(k) == <<TagRand, k>>

\* curve25519.X25519(priv, curve25519.Basepoint)
X25519Base(priv) == <<TagPub>> \o priv

\* curve25519.X25519 rejects a low order point (all-zero result)
X25519Ok(pub) == pub # Zero32

\* curve25519.X25519(priv, pub) for pub = X25519Base(priv2): commutative
X25519(priv, pub) ==
    LET a == priv[2]
        b == pub[3]
    IN  <<TagDH, IF a <= b THEN a ELSE b, IF a <= b THEN b ELSE a>>

\* aead.Seal(nil, nonce, plaintext, nil): ciphertext and tag under (key, nonce)
Seal(key, nonce, pt) == [key |-> key, nonce |-> nonce, pt |-> pt, intact |-> TRUE]

\* aead.Open(nil, nonce, ciphertext, nil): the tag verifies
OpenOk(key, nonce, ct) == ct.intact /\ ct.key = key /\ ct.nonce = nonce

\* ------------------------------------------------------- key derivation
\* deriveRootKey
deriveRootKey(sharedSecret) == sha256(sharedSecret)

\* deriveChainKey
deriveChainKey(rootKey, localPublic, remotePublic) ==
    hkdfBlock(rootKey, <<>>, localPublic \o remotePublic, 1)

\* deriveMessageKey
deriveMessageKey(chainKey, messageNumber) == sha256(chainKey \o LE32(messageNumber))

\* advanceChainKey with the advance left out
advanceChainKey_Stuck(chainKey) == chainKey

\* advanceChainKey
advanceChainKey(chainKey) == sha256(chainKey \o <<1>>)

\* deriveRootAndChainKeys: <<newRootKey, newChainKey>>
deriveRootAndChainKeys(rootKey, dhOutput) ==
    << hkdfBlock(dhOutput, rootKey, <<TagInfoRootChain>>, 1),
       hkdfBlock(dhOutput, rootKey, <<TagInfoRootChain>>, 2) >>

\* advanceChainKey applied k times
RECURSIVE AdvanceTimes(_, _)
AdvanceTimes(chainKey, k) ==
    IF k = 0 THEN chainKey ELSE AdvanceTimes(advanceChainKey(chainKey), k - 1)

\* ------------------------------------------------------------- inputs
Plaintexts == {<<112>>}
SharedSecrets == {<<115>>}
\* outcome of one rand.Read: the value it hands out, 0 for a failed read
KeyOutcomes == {0, 1, 2}
NonceOutcomes == {0, 1}
PublicKeys == {X25519Base(RandBytes(k)) : k \in KeyOutcomes \ {0}}
\* with the low order point that X25519 rejects
RemotePublicKeys == PublicKeys \cup {Zero32}

\* ------------------------------------------------------------- state
VARIABLES
    dr,               \* the two DoubleRatchet sessions
    sent,             \* per side: the messages its Encrypt returned
    consumed,         \* per side: the (message, number) pairs Decrypt accepted
    epoch,            \* per side: PerformDHRatchet calls so far
    secretOf,         \* per side: the shared secret the session was made from
    steps,            \* state-changing session calls so far
    last,             \* the last session operation and its result
    contacts,         \* App.contacts (user ids)
    isConnected,      \* Client.isConnected
    ctxDone,          \* Client.ctx cancelled
    outgoingMessages, \* Client.outgoingMessages
    relayWire,        \* messages written to the relay connection
    appLast,          \* the last App.SendMessage call and its result
    conns,            \* relay: per connection its ServerClient and goroutines
    clients,          \* relay: the keys of Server.clients
    pendingAdd,       \* relay: handleWebSocket calls that have not reached addClient
    messageQueue,     \* relay: Server.messageQueue
    routing,          \* relay: the routeMessage call in progress
    MessagesRouted,   \* relay: Server.stats.MessagesRouted
    panicked,         \* relay: the process died of a send on a closed channel
    origin,           \* relay: per frame received, the connection it came on
    timers,           \* relay: per connection its read deadline and idle times
    brokerLast,       \* relay: the last step and its outcome
    reconnectAttempts,\* Client.reconnectAttempts
    reconnectLoop,    \* position of Client.attemptReconnection
    connectionEvents, \* Client.connectionEvents
    hostEvents,       \* event types the connection handler was called with
    tasks,            \* running readMessages, writeMessages, handleEvents goroutines
    appRuns,          \* per NewApp run so far: App.identity after initIdentity
    storedIdentity,   \* the identity record in storage
    issued,           \* IDs of the one-time prekeys GenerateOneTimeKeys returned
    safetyLast,       \* the last GetSafetyNumber call and its result
    chatView,         \* the fields of the ChatView
    viewLast          \* the last ChatView.View call and what it gave

ratchetVars == <<dr, sent, consumed, epoch, secretOf, steps, last>>
appVars == <<contacts, isConnected, ctxDone, outgoingMessages, relayWire, appLast>>
brokerVars == <<conns, clients, pendingAdd, messageQueue, routing, MessagesRouted,
                panicked, origin, timers, brokerLast>>
clientVars == <<reconnectAttempts, reconnectLoop, connectionEvents, hostEvents, tasks>>
keyVars == <<appRuns, storedIdentity, issued, safetyLast>>
uiVars == <<chatView, viewLast>>
vars == <<dr, sent, consumed, epoch, secretOf, steps, last,
          contacts, isConnected, ctxDone, outgoingMessages, relayWire, appLast,
          conns, clients, pendingAdd, messageQueue, routing, MessagesRouted,
          panicked, origin, timers, brokerLast,
          reconnectAttempts, reconnectLoop, connectionEvents, hostEvents, tasks,
          appRuns, storedIdentity, issued, safetyLast,
          chatView, viewLast>>

\* DoubleRatchet / ChainState / KeyPair; exists = FALSE is the nil session
NoSession ==
    [ exists |-> FALSE,
      RootKey |-> <<>>,
      SendingChain |-> [ChainKey |-> <<>>, MessageNumber |-> 0],
      ReceivingChain |-> [ChainKey |-> <<>>, MessageNumber |-> 0],
      DHSelf |-> [PublicKey |-> <<>>, PrivateKey |-> <<>>],
      DHRemote |-> <<>>,
      MessageNumber |-> 0,
      PreviousCounter |-> 0 ]

\* EncryptedMessage
EncryptedMessage(ciphertext, nonce) == [Ciphertext |-> ciphertext, Nonce |-> nonce]

NoMessage == EncryptedMessage(Seal(<<>>, <<>>, <<>>), <<>>)

\* ServerClient with its connection and its two goroutines; st is the state
\* of Conn ("none": not accepted yet), written the frames written to it
NoClient ==
    [ st |-> "none", reader |-> "none", writer |-> "none",
      UserID |-> "", Send |-> <<>>, sendClosed |-> FALSE, written |-> <<>> ]

\* no routeMessage call is between findClientByUserID and the send
NotRouting == [busy |-> FALSE, msg |-> <<>>, dest |-> 0]

\* seconds left of the read deadline, seconds since the last inbound frame
\* of any kind, seconds since the last pong (or since the connection was
\* accepted), and whether a pong has arrived
NoTimer == [deadline |-> 0, quiet |-> 0, sincePong |-> 0, ponged |-> FALSE]

\* the last relay step: the frame or routed message it was about (id), the
\* connection it ran for, and what came of it
NoBrokerLast == [op |-> "none", conn |-> 0, id |-> 0, outcome |-> ""]

\* the last call: its arguments, its result, and what the message was to the
\* receiver (genuine: returned by the peer's
\* Encrypt with this number; replay: accepted before with this number)
NoLast ==
    [ op |-> "none", side |-> "A", ok |-> FALSE, n |-> 0,
      pt |-> <<>>, err |-> "", genuine |-> FALSE, replay |-> FALSE ]

NoAppLast == [op |-> "none", to |-> "", content |-> <<>>, err |-> "", delay |-> 0]

\* no goroutine of the client runs before the first Connect
NoTasks == [readers |-> 0, writers |-> 0, events |-> 0]

\* no identity record in storage; no GetSafetyNumber call yet
NoStoredIdentity == [present |-> FALSE, UserID |-> "", IdentityKey |-> <<>>,
                     Fingerprint |-> <<>>]
NoSafety == [called |-> FALSE, localIdentity |-> <<>>, remoteIdentity |-> <<>>,
             result |-> <<>>]

\* NewChatView: no size yet, no messages, an empty input line
NewChatView == [width |-> 0, height |-> 0, messages |-> <<>>, input |-> <<>>,
                cursor |-> 0, scrollOffset |-> 0]
NoView == [out |-> "none", start |-> 0, end |-> 0]

Init ==
    /\ dr = [s \in Sides |-> NoSession]
    /\ sent = [s \in Sides |-> <<>>]
    /\ consumed = [s \in Sides |-> {}]
    /\ epoch = [s \in Sides |-> 0]
    /\ secretOf = [s \in Sides |-> <<>>]
    /\ steps = 0
    /\ last = NoLast
    /\ contacts = {}
    /\ isConnected = FALSE
    /\ ctxDone = FALSE
    /\ outgoingMessages = <<>>
    /\ relayWire = <<>>
    /\ appLast = NoAppLast
    /\ conns = [c \in ConnIDs |-> NoClient]
    /\ clients = {}
    /\ pendingAdd = {}
    /\ messageQueue = <<>>
    /\ routing = NotRouting
    /\ MessagesRouted = 0
    /\ panicked = FALSE
    /\ origin = <<>>
    /\ timers = [c \in ConnIDs |-> NoTimer]
    /\ brokerLast = NoBrokerLast
    /\ reconnectAttempts = 0
    /\ reconnectLoop = [l \in LoopIDs |-> "idle"]
    /\ connectionEvents = <<>>
    /\ hostEvents = {}
    /\ tasks = NoTasks
    /\ appRuns = <<>>
    /\ storedIdentity = NoStoredIdentity
    /\ issued = <<>>
    /\ safetyLast = NoSafety
    /\ chatView = NewChatView
    /\ viewLast = NoView

\* ------------------------------------------------------------- session
\* NewDoubleRatchet(sharedSecret, remotePublicKey); rnd is the rand.Read
NewDoubleRatchet(s, sharedSecret, remotePublicKey, rnd) ==
    /\ ~dr[s].exists
    /\ IF rnd = 0
       THEN \* returns (nil, error): no session is made
            UNCHANGED <<dr, secretOf, last>>
       ELSE LET dhPrivate == RandBytes(rnd)
                dhPublic == X25519Base(dhPrivate)
                rootKey == deriveRootKey(sharedSecret)
                sendingChainKey == deriveChainKey(rootKey, dhPublic, remotePublicKey)
            IN  /\ dr' = [dr EXCEPT ![s] =
                     [ exists |-> TRUE,
                       RootKey |-> rootKey,
                       DHSelf |-> [PublicKey |-> dhPublic, PrivateKey |-> dhPrivate],
                       DHRemote |-> remotePublicKey,
                       SendingChain |-> [ChainKey |-> sendingChainKey, MessageNumber |-> 0],
                       ReceivingChain |-> [ChainKey |-> Zero32, MessageNumber |-> 0],
                       MessageNumber |-> 0,
                       PreviousCounter |-> 0 ]]
                /\ secretOf' = [secretOf EXCEPT ![s] = sharedSecret]
                /\ last' = [NoLast EXCEPT !.op = "New", !.side = s, !.ok = TRUE]
    /\ UNCHANGED <<sent, consumed, epoch, steps>>
    /\ UNCHANGED <<appVars, brokerVars, clientVars, keyVars, uiVars>>

\* Encrypt that returns before touching the chain when the nonce cannot be made
Encrypt_NoAdvance(s, plaintext, rnd) ==
    /\ dr[s].exists
    /\ steps < MaxSteps
    /\ LET n == dr[s].SendingChain.MessageNumber
           messageKey == deriveMessageKey(dr[s].SendingChain.ChainKey, n)
           nonce == RandBytes(rnd)
           em == EncryptedMessage(Seal(messageKey, nonce, plaintext), nonce)
       IN  IF rnd = 0
           THEN /\ last' = [NoLast EXCEPT !.op = "Encrypt", !.side = s, !.n = n,
                                          !.pt = plaintext,
                                          !.err = "failed to generate nonce"]
                /\ UNCHANGED <<sent, dr>>
           ELSE /\ last' = [NoLast EXCEPT !.op = "Encrypt", !.side = s, !.n = n,
                                          !.ok = TRUE,
                                          !.pt = plaintext]
                /\ sent' = [sent EXCEPT ![s] = Append(@,
                              [em |-> em, n |-> n, key |-> messageKey,
                               epoch |-> epoch[s]])]
                /\ UNCHANGED dr
    /\ steps' = steps + 1
    /\ UNCHANGED <<consumed, epoch, secretOf>>
    /\ UNCHANGED <<appVars, brokerVars, clientVars, keyVars, uiVars>>

\* DoubleRatchet.Encrypt(plaintext); rnd is the rand.Read of encryptWithKey
Encrypt(s, plaintext, rnd) ==
    /\ dr[s].exists
    /\ steps < MaxSteps
    /\ LET n == dr[s].SendingChain.MessageNumber
           messageKey == deriveMessageKey(dr[s].SendingChain.ChainKey, n)
           nonce == RandBytes(rnd)
           em == EncryptedMessage(Seal(messageKey, nonce, plaintext), nonce)
       IN  /\ dr' = [dr EXCEPT ![s].SendingChain =
                        [ChainKey |-> advanceChainKey(dr[s].SendingChain.ChainKey),
                         MessageNumber |-> n + 1]]
           /\ IF rnd = 0
              THEN /\ last' = [NoLast EXCEPT !.op = "Encrypt", !.side = s, !.n = n,
                                             !.pt = plaintext,
                                             !.err = "failed to generate nonce"]
                   /\ UNCHANGED sent
              ELSE /\ last' = [NoLast EXCEPT !.op = "Encrypt", !.side = s, !.n = n,
                                             !.ok = TRUE,
                                             !.pt = plaintext]
                   /\ sent' = [sent EXCEPT ![s] = Append(@,
                                 [em |-> em, n |-> n, key |-> messageKey,
                                  epoch |-> epoch[s]])]
    /\ steps' = steps + 1
    /\ UNCHANGED <<consumed, epoch, secretOf>>
    /\ UNCHANGED <<appVars, brokerVars, clientVars, keyVars, uiVars>>

\* the message was returned by the peer's Encrypt for message number n
IsGenuine(s, em, n) ==
    \E i \in DOMAIN sent[Peer(s)] :
        sent[Peer(s)][i].em = em /\ sent[Peer(s)][i].n = n

\* the message was accepted by this session before, with the same number
IsReplay(s, em, n) == [em |-> em, n |-> n] \in consumed[s]

\* Decrypt that advances the receiving chain before it checks the tag
Decrypt_AdvanceFirst(s, encrypted, messageNumber) ==
    /\ dr[s].exists
    /\ LET messageKey == deriveMessageKey(dr[s].ReceivingChain.ChainKey, messageNumber)
           ok == OpenOk(messageKey, encrypted.Nonce, encrypted.Ciphertext)
           call == [NoLast EXCEPT !.op = "Decrypt", !.side = s, !.n = messageNumber,
                                  !.genuine = IsGenuine(s, encrypted, messageNumber),
                                  !.replay = IsReplay(s, encrypted, messageNumber)]
       IN  /\ steps < MaxSteps
           /\ dr' = [dr EXCEPT ![s].ReceivingChain =
                        [ChainKey |-> advanceChainKey(dr[s].ReceivingChain.ChainKey),
                         MessageNumber |-> dr[s].ReceivingChain.MessageNumber + 1]]
           /\ steps' = steps + 1
           /\ IF ~ok
              THEN /\ last' = [call EXCEPT !.err = "failed to decrypt message"]
                   /\ UNCHANGED consumed
              ELSE /\ last' = [call EXCEPT !.ok = TRUE, !.pt = encrypted.Ciphertext.pt]
                   /\ consumed' = [consumed EXCEPT ![s] =
                                     @ \cup {[em |-> encrypted, n |-> messageNumber]}]
    /\ UNCHANGED <<sent, epoch, secretOf>>
    /\ UNCHANGED <<appVars, brokerVars, clientVars, keyVars, uiVars>>

\* DoubleRatchet.Decrypt(encrypted, messageNumber)
Decrypt(s, encrypted, messageNumber) ==
    /\ dr[s].exists
    /\ LET messageKey == deriveMessageKey(dr[s].ReceivingChain.ChainKey, messageNumber)
           ok == OpenOk(messageKey, encrypted.Nonce, encrypted.Ciphertext)
           call == [NoLast EXCEPT !.op = "Decrypt", !.side = s, !.n = messageNumber,
                                  !.genuine = IsGenuine(s, encrypted, messageNumber),
                                  !.replay = IsReplay(s, encrypted, messageNumber)]
       IN  IF ~ok
           THEN /\ last' = [call EXCEPT !.err = "failed to decrypt message"]
                /\ UNCHANGED <<dr, consumed, steps>>
           ELSE /\ steps < MaxSteps
                /\ dr' = [dr EXCEPT ![s].ReceivingChain =
                             [ChainKey |-> advanceChainKey(dr[s].ReceivingChain.ChainKey),
                              MessageNumber |-> dr[s].ReceivingChain.MessageNumber + 1]]
                /\ consumed' = [consumed EXCEPT ![s] =
                                  @ \cup {[em |-> encrypted, n |-> messageNumber]}]
                /\ steps' = steps + 1
                /\ last' = [call EXCEPT !.ok = TRUE, !.pt = encrypted.Ciphertext.pt]
    /\ UNCHANGED <<sent, epoch, secretOf>>
    /\ UNCHANGED <<appVars, brokerVars, clientVars, keyVars, uiVars>>

\* DoubleRatchet.PerformDHRatchet(remotePublicKey); rnd is the rand.Read
PerformDHRatchet(s, remotePublicKey, rnd) ==
    /\ dr[s].exists
    /\ LET call == [NoLast EXCEPT !.op = "Ratchet", !.side = s]
       IN  IF rnd = 0
           THEN \* returns the error of rand.Read
                UNCHANGED <<dr, epoch, steps, last>>
           ELSE IF ~X25519Ok(remotePublicKey)
           THEN \* returns the error of X25519
                UNCHANGED <<dr, epoch, steps, last>>
           ELSE LET newPrivate == RandBytes(rnd)
                    newPublic == X25519Base(newPrivate)
                    sharedSecret == X25519(newPrivate, remotePublicKey)
                    keys == deriveRootAndChainKeys(dr[s].RootKey, sharedSecret)
                IN  /\ steps < MaxSteps
                    /\ epoch["A"] + epoch["B"] < MaxRatchet
                    /\ dr' = [dr EXCEPT
                          ![s].RootKey = keys[1],
                          ![s].DHSelf = [PublicKey |-> newPublic, PrivateKey |-> newPrivate],
                          ![s].DHRemote = remotePublicKey,
                          ![s].SendingChain = [ChainKey |-> keys[2], MessageNumber |-> 0],
                          ![s].PreviousCounter = dr[s].MessageNumber,
                          ![s].MessageNumber = 0]
                    /\ epoch' = [epoch EXCEPT ![s] = @ + 1]
                    /\ steps' = steps + 1
                    /\ last' = [call EXCEPT !.ok = TRUE]
    /\ UNCHANGED <<sent, consumed, secretOf>>
    /\ UNCHANGED <<appVars, brokerVars, clientVars, keyVars, uiVars>>

\* ------------------------------------------------- what a receiver is handed
\* the message with its ciphertext altered in transit
Tampered(em) == [em EXCEPT !.Ciphertext.intact = FALSE]

\* a message anyone can make with SimpleEncrypt: sealed under the key that
\* deriveMessageKey gives for number m from the all-zero placeholder of
\* NewDoubleRatchet's receiving chain advanced k times
Forged(k, m) ==
    EncryptedMessage(
        Seal(deriveMessageKey(AdvanceTimes(Zero32, k), m), RandBytes(1), <<102>>),
        RandBytes(1))

\* the Decrypt calls a session may get: the peer's messages with their own
\* number, with the next number and altered; messages it accepted before,
\* again; and forged messages
DecryptCalls(s) ==
    LET genuine == {sent[Peer(s)][i] : i \in DOMAIN sent[Peer(s)]}
    IN       {[em |-> g.em, n |-> g.n] : g \in genuine}
        \cup {[em |-> g.em, n |-> g.n + 1] : g \in genuine}
        \cup {[em |-> Tampered(g.em), n |-> g.n] : g \in genuine}
        \cup consumed[s]
        \cup {[em |-> Forged(k, m), n |-> m] : k \in {0, 1}, m \in {0, 1}}
        \cup {[em |-> Tampered(Forged(k, k)), n |-> k] : k \in {0, 1}}

\* ------------------------------------------------------------- app, client
UserIDs == {"bob", "carol"}
LocalUserID == "alice"

\* network.Message (ID and Timestamp come from the clock and are left out)
Message(type, from, to, content) ==
    [Type |-> type, From |-> from, To |-> to, Payload |-> [content |-> content]]

\* App.AddContact(userID, displayName); saved: storage.SaveContact succeeded
AddContact(userID, saved) ==
    /\ IF saved
       THEN contacts' = contacts \cup {userID}
       ELSE UNCHANGED contacts
    /\ appLast' = [NoAppLast EXCEPT !.op = "AddContact", !.to = userID,
                      !.err = IF saved THEN "" ELSE "failed to save contact"]
    /\ UNCHANGED <<isConnected, ctxDone, outgoingMessages, relayWire>>
    /\ UNCHANGED <<ratchetVars, brokerVars, clientVars, keyVars, uiVars>>

\* Client.sendConnectionEvent: the channel after it (a full channel drops
\* the event)
sendConnectionEvent(q, type) == IF Len(q) < EventCap THEN Append(q, type) ELSE q

\* Client.Connect(): the error it returns ("" for nil); dialed: the
\* WebSocket dial succeeded
ConnectResult(dialed) ==
    IF isConnected THEN "already connected"
    ELSE IF ~dialed THEN "failed to connect to server"
    ELSE ""

\* what Client.Connect() does to the client: on success it resets the
\* attempt counter, starts the three goroutines, sends the Connected event
\* and ends with sendClientHello, which writes the hello to the connection
ConnectEffect(dialed) ==
    /\ Len(relayWire) < MaxWire
    /\ IF ConnectResult(dialed) = ""
       THEN /\ isConnected' = TRUE
            /\ reconnectAttempts' = 0
            /\ tasks' = [readers |-> tasks.readers + 1, writers |-> tasks.writers + 1,
                         events |-> tasks.events + 1]
            /\ connectionEvents' = sendConnectionEvent(connectionEvents, "Connected")
            /\ relayWire' = Append(relayWire, Message("client_hello", LocalUserID, "", <<>>))
       ELSE UNCHANGED <<isConnected, reconnectAttempts, tasks, connectionEvents, relayWire>>

\* Client.Connect() called by the host
Connect(dialed) ==
    /\ ConnectEffect(dialed)
    /\ appLast' = [NoAppLast EXCEPT !.op = "Connect", !.err = ConnectResult(dialed)]
    /\ UNCHANGED <<contacts, ctxDone, outgoingMessages, reconnectLoop, hostEvents>>
    /\ UNCHANGED <<ratchetVars, brokerVars, keyVars, uiVars>>

\* Client.Disconnect()
Disconnect ==
    /\ IF ~isConnected
       THEN UNCHANGED <<isConnected, ctxDone, connectionEvents>>
       ELSE /\ isConnected' = FALSE
            /\ ctxDone' = TRUE
            /\ connectionEvents' = sendConnectionEvent(connectionEvents, "Disconnected")
    /\ appLast' = [NoAppLast EXCEPT !.op = "Disconnect"]
    /\ UNCHANGED <<contacts, outgoingMessages, relayWire>>
    /\ UNCHANGED <<reconnectAttempts, reconnectLoop, hostEvents, tasks>>
    /\ UNCHANGED <<ratchetVars, brokerVars, keyVars, uiVars>>

\* Client.SendMessage(to, content, msgType): the error it returns ("" for nil)
\* when the select takes the branch pick, one of "send", "done", "default"
ClientSendResult(pick) ==
    IF ~isConnected THEN "not connected"
    ELSE IF pick = "send" THEN ""
    ELSE IF pick = "done" THEN "client is shutting down"
    ELSE "outgoing message queue is full"

\* the branches the select of Client.SendMessage can take: a ready case if
\* there is one (any of them), the default otherwise
ClientSendPicks ==
    LET ready == (IF Len(outgoingMessages) < MaxQueue THEN {"send"} ELSE {})
                 \cup (IF ctxDone THEN {"done"} ELSE {})
    IN  IF ready = {} THEN {"default"} ELSE ready

\* App.SendMessage(to, content)
SendMessage(to, content, pick) ==
    /\ pick \in ClientSendPicks
    /\ IF to \notin contacts
       THEN /\ appLast' = [NoAppLast EXCEPT !.op = "SendMessage", !.to = to,
                              !.content = content, !.err = "contact not found"]
            /\ UNCHANGED outgoingMessages
       ELSE /\ appLast' = [NoAppLast EXCEPT !.op = "SendMessage", !.to = to,
                              !.content = content, !.err = ClientSendResult(pick)]
            /\ IF ClientSendResult(pick) = ""
               THEN outgoingMessages' =
                        Append(outgoingMessages, Message("chat", LocalUserID, to, content))
               ELSE UNCHANGED outgoingMessages
    /\ UNCHANGED <<contacts, isConnected, ctxDone, relayWire>>
    /\ UNCHANGED <<ratchetVars, brokerVars, clientVars, keyVars, uiVars>>

\* Client.handleConnectionError: the client is marked disconnected, the
\* Error event is sent and an attemptReconnection goroutine is started (l)
handleConnectionError(l) ==
    /\ reconnectLoop[l] = "idle"
    /\ \A k \in LoopIDs : k < l => reconnectLoop[k] # "idle"
    /\ isConnected' = FALSE
    /\ connectionEvents' = sendConnectionEvent(connectionEvents, "Error")
    /\ reconnectLoop' = [reconnectLoop EXCEPT ![l] = "top"]

\* one turn of Client.writeMessages taking a message from the queue;
\* written: conn.WriteMessage succeeded. A failure (writeMessage also fails
\* when the client is not connected) goes to handleConnectionError and ends
\* the goroutine.
WriteMessages(written) ==
    /\ tasks.writers > 0
    /\ outgoingMessages # <<>>
    /\ Len(relayWire) < MaxWire
    /\ outgoingMessages' = Tail(outgoingMessages)
    /\ IF isConnected /\ written
       THEN /\ relayWire' = Append(relayWire, Head(outgoingMessages))
            /\ UNCHANGED <<isConnected, connectionEvents, reconnectLoop, tasks>>
       ELSE /\ \E l \in LoopIDs : handleConnectionError(l)
            /\ tasks' = [tasks EXCEPT !.writers = @ - 1]
            /\ UNCHANGED relayWire
    /\ appLast' = [NoAppLast EXCEPT !.op = "WriteMessages"]
    /\ UNCHANGED <<contacts, ctxDone, reconnectAttempts, hostEvents>>
    /\ UNCHANGED <<ratchetVars, brokerVars, keyVars, uiVars>>

NextApp ==
    \/ \E u \in UserIDs, saved \in BOOLEAN : AddContact(u, saved)
    \/ \E dialed \in BOOLEAN : Connect(dialed)
    \/ Disconnect
    \/ \E to \in UserIDs, content \in Plaintexts, pick \in {"send", "done", "default"} :
          SendMessage(to, content, pick)
    \/ \E written \in BOOLEAN : WriteMessages(written)

NextRatchet ==
    \/ \E s \in Sides, ss \in SharedSecrets, rpk \in PublicKeys, rnd \in KeyOutcomes :
          NewDoubleRatchet(s, ss, rpk, rnd)
    \/ \E s \in Sides, p \in Plaintexts, rnd \in NonceOutcomes :
          Encrypt(s, p, rnd)
    \/ \E s \in Sides : \E c \in DecryptCalls(s) : Decrypt(s, c.em, c.n)
    \/ \E s \in Sides, rpk \in RemotePublicKeys, rnd \in KeyOutcomes :
          PerformDHRatchet(s, rpk, rnd)

Spec == Init /\ [][NextRatchet]_vars

SpecApp == Init /\ [][NextApp]_vars

\* ------------------------------------------------------ client, reconnection
\* Client.readMessages when conn.ReadMessage returns an error (the
\* connection failed or was closed under it): handleConnectionError, and the
\* goroutine ends
ReadFailed ==
    /\ tasks.readers > 0
    /\ \E l \in LoopIDs : handleConnectionError(l)
    /\ tasks' = [tasks EXCEPT !.readers = @ - 1]
    /\ appLast' = [NoAppLast EXCEPT !.op = "readMessages", !.err = "read error"]
    /\ UNCHANGED <<contacts, ctxDone, outgoingMessages, relayWire, reconnectAttempts,
                   hostEvents>>
    /\ UNCHANGED <<ratchetVars, brokerVars, keyVars, uiVars>>

\* the ticker case of Client.writeMessages when writePing returns an error
\* (the write failed, or the client is not connected): handleConnectionError,
\* and the goroutine ends
PingFailed ==
    /\ tasks.writers > 0
    /\ \E l \in LoopIDs : handleConnectionError(l)
    /\ tasks' = [tasks EXCEPT !.writers = @ - 1]
    /\ appLast' = [NoAppLast EXCEPT !.op = "writeMessages", !.err = "failed to write ping"]
    /\ UNCHANGED <<contacts, ctxDone, outgoingMessages, relayWire, reconnectAttempts,
                   hostEvents>>
    /\ UNCHANGED <<ratchetVars, brokerVars, keyVars, uiVars>>

\* the top of the loop of Client.attemptReconnection: it gives up, with a
\* log line only, when the attempts are used up; it returns when the context
\* is cancelled; otherwise it counts the attempt and sends the Reconnecting
\* event
ReconnectTop(l) ==
    /\ reconnectLoop[l] = "top"
    /\ IF reconnectAttempts >= MaxReconnect
       THEN /\ reconnectLoop' = [reconnectLoop EXCEPT ![l] = "idle"]
            /\ appLast' = [NoAppLast EXCEPT !.op = "attemptReconnection",
                              !.err = "max reconnection attempts reached"]
            /\ UNCHANGED <<reconnectAttempts, connectionEvents>>
       ELSE IF ctxDone
       THEN /\ reconnectLoop' = [reconnectLoop EXCEPT ![l] = "idle"]
            /\ appLast' = [NoAppLast EXCEPT !.op = "attemptReconnection",
                              !.err = "cancelled"]
            /\ UNCHANGED <<reconnectAttempts, connectionEvents>>
       ELSE /\ reconnectLoop' = [reconnectLoop EXCEPT ![l] = "connect"]
            /\ reconnectAttempts' = reconnectAttempts + 1
            /\ connectionEvents' = sendConnectionEvent(connectionEvents, "Reconnecting")
            /\ appLast' = [NoAppLast EXCEPT !.op = "attemptReconnection",
                              !.err = "reconnecting"]
    /\ UNCHANGED <<contacts, isConnected, ctxDone, outgoingMessages, relayWire,
                   hostEvents, tasks>>
    /\ UNCHANGED <<ratchetVars, brokerVars, keyVars, uiVars>>

\* the delay Client.attemptReconnection waits after a failed Connect, in
\* seconds, when reconnectAttempts is attempts
ReconnectBackoff(attempts) ==
    IF reconnectDelay * attempts > MaxBackoff THEN MaxBackoff
    ELSE reconnectDelay * attempts

\* the c.Connect() of Client.attemptReconnection: on an error the loop
\* computes its delay and goes to wait, on success it returns
ReconnectConnect(l, dialed) ==
    /\ reconnectLoop[l] = "connect"
    /\ ConnectEffect(dialed)
    /\ reconnectLoop' = [reconnectLoop EXCEPT ![l] =
                            IF ConnectResult(dialed) = "" THEN "idle" ELSE "wait"]
    /\ appLast' = [NoAppLast EXCEPT !.op = "attemptReconnection",
                      !.err = IF ConnectResult(dialed) = "" THEN "reconnection successful"
                              ELSE ConnectResult(dialed),
                      !.delay = IF ConnectResult(dialed) = "" THEN 0
                                ELSE ReconnectBackoff(reconnectAttempts)]
    /\ UNCHANGED <<contacts, ctxDone, outgoingMessages, hostEvents>>
    /\ UNCHANGED <<ratchetVars, brokerVars, keyVars, uiVars>>

\* the wait of Client.attemptReconnection: the context is cancelled
\* (cancelled, possible when it is) or the delay is over
ReconnectWait(l, cancelled) ==
    /\ reconnectLoop[l] = "wait"
    /\ cancelled => ctxDone
    /\ reconnectLoop' = [reconnectLoop EXCEPT ![l] = IF cancelled THEN "idle" ELSE "top"]
    /\ appLast' = [NoAppLast EXCEPT !.op = "attemptReconnection",
                      !.err = IF cancelled THEN "cancelled" ELSE "waited"]
    /\ UNCHANGED <<contacts, isConnected, ctxDone, outgoingMessages, relayWire,
                   reconnectAttempts, connectionEvents, hostEvents, tasks>>
    /\ UNCHANGED <<ratchetVars, brokerVars, keyVars, uiVars>>

\* one turn of Client.handleEvents taking an event: the connection handler
\* of the host is called with it
handleEvents ==
    /\ tasks.events > 0
    /\ connectionEvents # <<>>
    /\ connectionEvents' = Tail(connectionEvents)
    /\ hostEvents' = hostEvents \cup {Head(connectionEvents)}
    /\ appLast' = [NoAppLast EXCEPT !.op = "handleEvents"]
    /\ UNCHANGED <<contacts, isConnected, ctxDone, outgoingMessages, relayWire,
                   reconnectAttempts, reconnectLoop, tasks>>
    /\ UNCHANGED <<ratchetVars, brokerVars, keyVars, uiVars>>

\* the ctx.Done() case of Client.readMessages, Client.writeMessages or
\* Client.handleEvents (task): the goroutine returns
Cancelled(task) ==
    /\ ctxDone
    /\ tasks[task] > 0
    /\ tasks' = [tasks EXCEPT ![task] = @ - 1]
    /\ appLast' = [NoAppLast EXCEPT !.op = "cancelled"]
    /\ UNCHANGED <<contacts, isConnected, ctxDone, outgoingMessages, relayWire,
                   reconnectAttempts, reconnectLoop, connectionEvents, hostEvents>>
    /\ UNCHANGED <<ratchetVars, brokerVars, keyVars, uiVars>>

NextClient ==
    \/ \E dialed \in BOOLEAN : Connect(dialed)
    \/ Disconnect
    \/ ReadFailed
    \/ PingFailed
    \/ \E l \in LoopIDs : ReconnectTop(l)
    \/ \E l \in LoopIDs, dialed \in BOOLEAN : ReconnectConnect(l, dialed)
    \/ \E l \in LoopIDs, cancelled \in BOOLEAN : ReconnectWait(l, cancelled)
    \/ handleEvents

SpecClient == Init /\ [][NextClient]_vars

\* the client with its context: the host connects, disconnects and sends,
\* the goroutines fail, reconnect and return on cancellation
NextCancel ==
    \/ \E dialed \in BOOLEAN : Connect(dialed)
    \/ Disconnect
    \/ ReadFailed
    \/ PingFailed
    \/ \E l \in LoopIDs : ReconnectTop(l)
    \/ \E l \in LoopIDs, dialed \in BOOLEAN : ReconnectConnect(l, dialed)
    \/ \E l \in LoopIDs, cancelled \in BOOLEAN : ReconnectWait(l, cancelled)
    \/ \E task \in DOMAIN NoTasks : Cancelled(task)
    \/ AddContact("bob", TRUE)
    \/ \E content \in Plaintexts, pick \in {"send", "done", "default"} :
          SendMessage("bob", content, pick)
    \/ \E written \in BOOLEAN : WriteMessages(written)

SpecCancel == Init /\ [][NextCancel]_vars

\* ------------------------------------------------------------------- keys
\* byte k (from 0) of the 32-byte digest that the term h stands for: a fixed
\* function of the bytes written to the hash, in their order
RECURSIVE DigestMix(_, _)
DigestMix(h, acc) ==
    IF h = <<>> THEN acc ELSE DigestMix(Tail(h), (acc * 31 + Head(h) + 7) % 256)

DigestByte(h, k) == DigestMix(h, k + 1)

\* Go's a < b on the strings of two byte slices: bytewise, a proper prefix
\* is less
RECURSIVE StringLess(_, _)
StringLess(a, b) ==
    IF b = <<>> THEN FALSE
    ELSE IF a = <<>> THEN TRUE
    ELSE IF Head(a) # Head(b) THEN Head(a) < Head(b)
    ELSE StringLess(Tail(a), Tail(b))

\* fmt.Sprintf("%d", digit) for a digit, and the two characters of
\* fmt.Sprintf("%x", ...) for one byte
DecimalDigits == <<"0", "1", "2", "3", "4", "5", "6", "7", "8", "9">>
HexDigits == DecimalDigits \o <<"a", "b", "c", "d", "e", "f">>
HexByte(b) == <<HexDigits[(b \div 16) + 1], HexDigits[(b % 16) + 1]>>

\* crypto.KeyPair and crypto.IdentityKeyPair
KeyPair(public, private) == [PublicKey |-> public, PrivateKey |-> private]
IdentityKeyPair(signing, exchange, fingerprint) ==
    [SigningKey |-> signing, ExchangeKey |-> exchange, Fingerprint |-> fingerprint]

\* the public key ed25519.GenerateKey returns with the private key seed
Ed25519Public(seed) == <<TagEdPub>> \o seed

\* generateFingerprint: the first 8 bytes of the hash of both public keys,
\* in hex
generateFingerprint(signingPublic, exchangePublic) ==
    LET hash == sha256(signingPublic \o exchangePublic)
        HexOf[i \in 0..8] ==
            IF i = 0 THEN <<>> ELSE HexOf[i - 1] \o HexByte(DigestByte(hash, i - 1))
    IN  HexOf[8]

\* GenerateIdentityKeyPair when both reads of the random source succeed and
\* hand out the values s and e
GenerateIdentityKeyPair(s, e) ==
    LET signing == KeyPair(Ed25519Public(RandBytes(s)), RandBytes(s))
        exchange == KeyPair(X25519Base(RandBytes(e)), RandBytes(e))
    IN  IdentityKeyPair(signing, exchange,
                        generateFingerprint(signing.PublicKey, exchange.PublicKey))

\* GetSafetyNumber with the ordering of the two identities left out
GetSafetyNumber_Unordered(localIdentity, remoteIdentity) ==
    LET localCombined == localIdentity.SigningKey.PublicKey
                            \o localIdentity.ExchangeKey.PublicKey
        remoteCombined == remoteIdentity.SigningKey.PublicKey
                            \o remoteIdentity.ExchangeKey.PublicKey
        hash == sha256(localCombined \o remoteCombined)
        Digit(i, j) == DecimalDigits[(DigestByte(hash, (i * 5 + j) % 32) % 10) + 1]
        Group(i) == (IF i > 0 THEN <<" ">> ELSE <<>>) \o [j \in 1..5 |-> Digit(i, j - 1)]
        Upto[i \in 0..12] == IF i = 0 THEN <<>> ELSE Upto[i - 1] \o Group(i - 1)
    IN  Upto[12]

\* GetSafetyNumber: the string it returns, as its sequence of characters
GetSafetyNumber(localIdentity, remoteIdentity) ==
    LET localCombined == localIdentity.SigningKey.PublicKey
                            \o localIdentity.ExchangeKey.PublicKey
        remoteCombined == remoteIdentity.SigningKey.PublicKey
                            \o remoteIdentity.ExchangeKey.PublicKey
        combined == IF StringLess(localCombined, remoteCombined)
                    THEN localCombined \o remoteCombined
                    ELSE remoteCombined \o localCombined
        hash == sha256(combined)
        Digit(i, j) == DecimalDigits[(DigestByte(hash, (i * 5 + j) % 32) % 10) + 1]
        Group(i) == (IF i > 0 THEN <<" ">> ELSE <<>>) \o [j \in 1..5 |-> Digit(i, j - 1)]
        Upto[i \in 0..12] == IF i = 0 THEN <<>> ELSE Upto[i - 1] \o Group(i - 1)
    IN  Upto[12]

\* identities GetSafetyNumber is called with: generated ones, and the one
\* initIdentity makes from a stored record, which has no keys
LoadedIdentity(fingerprint) ==
    IdentityKeyPair(KeyPair(<<>>, <<>>), KeyPair(<<>>, <<>>), fingerprint)
SafetyIdentities ==
    {GenerateIdentityKeyPair(s, e) : s \in 1..MaxKeys, e \in 1..MaxKeys}
        \cup {LoadedIdentity(generateFingerprint(Ed25519Public(RandBytes(1)),
                                                 X25519Base(RandBytes(1))))}

\* a call of GetSafetyNumber
SafetyNumber(localIdentity, remoteIdentity) ==
    /\ safetyLast' = [called |-> TRUE, localIdentity |-> localIdentity,
                      remoteIdentity |-> remoteIdentity,
                      result |-> GetSafetyNumber(localIdentity, remoteIdentity)]
    /\ UNCHANGED <<appRuns, storedIdentity, issued>>
    /\ UNCHANGED <<ratchetVars, appVars, brokerVars, clientVars, uiVars>>

\* a uint32 as its two 16-bit halves; x + uint32(i) for 0 <= i < 65536
U32(hi, lo) == [hi |-> hi, lo |-> lo]
AddU32(x, i) ==
    U32((x.hi + ((x.lo + i) \div 65536)) % 65536, (x.lo + i) % 65536)
LessU32(x, y) == x.hi < y.hi \/ (x.hi = y.hi /\ x.lo < y.lo)

\* GenerateOneTimeKeys(startID, count): the IDs of the keys it returns
OneTimeKeyIDs(startID, count) == [i \in 1..count |-> AddU32(startID, i - 1)]

\* the start IDs of the calls: the first call starts anywhere, a later call
\* goes on after the last ID issued
StartIDs ==
    IF issued = <<>>
    THEN {U32(0, 0), U32(65535, 65535), U32(65535, 65534)}
    ELSE {AddU32(issued[Len(issued)], 1)}

\* a call of GenerateOneTimeKeys; read: every rand.Read succeeded (an error
\* returns no key)
GenerateOneTimeKeys(startID, count, read) ==
    /\ Len(issued) + count <= MaxOneTimeCalls * MaxCount
    /\ startID \in StartIDs
    /\ issued' = IF read THEN issued \o OneTimeKeyIDs(startID, count) ELSE issued
    /\ UNCHANGED <<appRuns, storedIdentity, safetyLast>>
    /\ UNCHANGED <<ratchetVars, appVars, brokerVars, clientVars, uiVars>>

\* Storage.GetIdentity: the error it returns ("" for nil)
GetIdentity == IF storedIdentity.present THEN "" ELSE "Key not found"

\* App.initIdentity in a run of NewApp; s, e: the values the random source
\* hands out for the signing and the exchange key (0: the read fails);
\* saved: Storage.SaveIdentity succeeded
initIdentity(s, e, saved) ==
    /\ Len(appRuns) < MaxRuns
    /\ IF GetIdentity = ""
       THEN /\ appRuns' = Append(appRuns, [err |-> "",
                              identity |-> LoadedIdentity(storedIdentity.Fingerprint)])
            /\ UNCHANGED storedIdentity
       ELSE IF s = 0 \/ e = 0
       THEN /\ appRuns' = Append(appRuns, [err |-> "failed to generate identity",
                              identity |-> LoadedIdentity(<<>>)])
            /\ UNCHANGED storedIdentity
       ELSE LET identity == GenerateIdentityKeyPair(s, e)
            IN  /\ appRuns' = Append(appRuns, [err |-> "", identity |-> identity])
                /\ IF saved
                   THEN storedIdentity' =
                            [present |-> TRUE, UserID |-> LocalUserID,
                             IdentityKey |-> identity.SigningKey.PublicKey,
                             Fingerprint |-> identity.Fingerprint]
                   ELSE UNCHANGED storedIdentity
    /\ UNCHANGED <<issued, safetyLast>>
    /\ UNCHANGED <<ratchetVars, appVars, brokerVars, clientVars, uiVars>>

NextKeys ==
    \/ \E s \in KeyOutcomes, e \in KeyOutcomes, saved \in BOOLEAN : initIdentity(s, e, saved)
    \/ \E startID \in StartIDs, count \in 0..MaxCount, read \in BOOLEAN :
          GenerateOneTimeKeys(startID, count, read)

SpecKeys == Init /\ [][NextKeys]_vars

\* GetSafetyNumber over every pair of identities
NextSafety ==
    \E localIdentity \in SafetyIdentities, remoteIdentity \in SafetyIdentities :
        SafetyNumber(localIdentity, remoteIdentity)

SpecSafety == Init /\ [][NextSafety]_vars

\* -------------------------------------------------------------- chat view
\* tea.WindowSizeMsg values: window heights that leave the message area
\* -6, -5, 0, 3 and 6 lines, and a window with no width
WindowWidths == {0, 80}
WindowHeights == {2, 3, 8, 11, 14}

\* tea.KeyMsg values by their String(): the keys Update names, one key whose
\* name is longer than one byte, and one character
KeyNames == {"enter", "backspace", "left", "right", "up", "down", "ctrl+l",
             "tab", "a"}

\* the / of Go on int: the quotient truncated toward zero
GoDiv(a, b) == IF a >= 0 THEN a \div b ELSE -((-a) \div b)

\* ChatView.getMessageAreaHeight
getMessageAreaHeight(c) == c.height - 1 - 3 - 2

\* ChatView.scrollToBottom: the new scrollOffset
scrollToBottom(c) ==
    LET maxMessages == GoDiv(getMessageAreaHeight(c), 3)
    IN  IF Len(c.messages) > maxMessages THEN Len(c.messages) - maxMessages ELSE 0

\* ChatView.getVisibleMessages: the bounds of its slice expression
\* c.messages[start:end], for a view with messages
getVisibleMessages(c) ==
    LET maxMessages == GoDiv(getMessageAreaHeight(c), 3)
        start0 == c.scrollOffset
        end0 == start0 + maxMessages
        end == IF end0 > Len(c.messages) THEN Len(c.messages) ELSE end0
        start == IF start0 >= Len(c.messages) THEN Len(c.messages) - 1 ELSE start0
    IN  [start |-> start, end |-> end]

\* a slice expression s[start:end] of Go on a slice of this length (the
\* list is cut back to its length by append, so its capacity is not less)
\* runs without a panic
SliceInRange(start, end, len) == 0 <= start /\ start <= end /\ end <= len

\* ChatView.Update on a tea.WindowSizeMsg
UpdateWindowSize(c, Width, Height) ==
    [c EXCEPT !.width = Width, !.height = Height - 2]

\* ChatView.Update on a tea.KeyMsg: the view after it
UpdateKey(c, key) ==
    CASE key = "enter" ->
            IF c.input # <<>>
            THEN LET appended == [c EXCEPT !.messages = Append(@, c.input),
                                           !.input = <<>>, !.cursor = 0]
                 IN  [appended EXCEPT !.scrollOffset = scrollToBottom(appended)]
            ELSE c
      [] key = "backspace" ->
            IF c.cursor > 0
            THEN [c EXCEPT !.input = SubSeq(c.input, 1, c.cursor - 1)
                                       \o SubSeq(c.input, c.cursor + 1, Len(c.input)),
                           !.cursor = c.cursor - 1]
            ELSE c
      [] key = "left" -> IF c.cursor > 0 THEN [c EXCEPT !.cursor = @ - 1] ELSE c
      [] key = "right" ->
            IF c.cursor < Len(c.input) THEN [c EXCEPT !.cursor = @ + 1] ELSE c
      [] key = "up" ->
            IF c.scrollOffset > 0 THEN [c EXCEPT !.scrollOffset = @ - 1] ELSE c
      [] key = "down" ->
            LET maxScroll == Len(c.messages) - getMessageAreaHeight(c)
            IN  IF c.scrollOffset < maxScroll THEN [c EXCEPT !.scrollOffset = @ + 1]
                ELSE c
      [] key = "ctrl+l" -> [c EXCEPT !.messages = <<>>, !.scrollOffset = 0]
      [] OTHER ->
            IF key \in {"a"}
            THEN [c EXCEPT !.input = SubSeq(c.input, 1, c.cursor) \o <<key>>
                                       \o SubSeq(c.input, c.cursor + 1, Len(c.input)),
                           !.cursor = c.cursor + 1]
            ELSE c

\* ChatView.Update on a window size message
UpdateSize(Width, Height) ==
    /\ viewLast.out # "panic"
    /\ chatView' = UpdateWindowSize(chatView, Width, Height)
    /\ viewLast' = NoView
    /\ UNCHANGED <<ratchetVars, appVars, brokerVars, clientVars, keyVars>>

\* ChatView.Update on a key press
Update(key) ==
    /\ viewLast.out # "panic"
    /\ key = "a" => Len(chatView.input) < MaxInput
    /\ key = "enter" /\ chatView.input # <<>> => Len(chatView.messages) < MaxMessages
    /\ chatView' = UpdateKey(chatView, key)
    /\ viewLast' = NoView
    /\ UNCHANGED <<ratchetVars, appVars, brokerVars, clientVars, keyVars>>

\* ChatView.View: "Loading chat..." without a size, the empty notice
\* without messages, else renderMessages over getVisibleMessages, whose
\* slice expression panics when its bounds are out of range
View ==
    /\ viewLast.out # "panic"
    /\ viewLast' =
          IF chatView.width = 0 \/ chatView.height = 0
          THEN [NoView EXCEPT !.out = "Loading chat..."]
          ELSE IF Len(chatView.messages) = 0
          THEN [NoView EXCEPT !.out = "No messages yet"]
          ELSE LET v == getVisibleMessages(chatView)
               IN  [out |-> IF SliceInRange(v.start, v.end, Len(chatView.messages))
                            THEN "messages" ELSE "panic",
                    start |-> v.start, end |-> v.end]
    /\ UNCHANGED chatView
    /\ UNCHANGED <<ratchetVars, appVars, brokerVars, clientVars, keyVars>>

NextView ==
    \/ \E Width \in WindowWidths, Height \in WindowHeights : UpdateSize(Width, Height)
    \/ \E key \in KeyNames : Update(key)
    \/ View

SpecView == Init /\ [][NextView]_vars

\* ------------------------------------------------------------------ relay
\* user ids that connect to the relay, and the destinations they write to
\* ("carol" never connects; "" is a chat message without destination)
BrokerUsers == {"alice", "bob"}
Destinations == {"bob", "carol", ""}

\* a network.Message as the relay sees it, with its ID
Frame(id, type, from, to) == [ID |-> id] @@ Message(type, from, to, <<>>)

NoFrame == Frame(0, "", "", "")

\* the frames a client can send as the frame with this id
InboundFrames(id) ==
         {Frame(id, "client_hello", u, "") : u \in BrokerUsers}
    \cup {Frame(id, "chat", "alice", t) : t \in Destinations}
    \cup {Frame(id, "presence", "bob", ""),
          Frame(id, "key_exchange", "alice", "bob"),
          Frame(id, "bogus", "alice", "bob")}

\* the response of handleClientHello
ServerHello(c, userID) ==
    [ ID |-> 0, Type |-> "server_hello", From |-> "server", To |-> userID,
      Payload |-> [version |-> "1.0", session_id |-> c] ]

RoutedMessage(from, to, msg) == [From |-> from, To |-> to, Message |-> msg]

\* Server.handleWebSocket up to the start of the two goroutines; upgraded:
\* upgrader.Upgrade succeeded. The client ids come from the clock, so they
\* are taken in increasing order. readMessages sets the read deadline.
handleWebSocket(c, upgraded) ==
    /\ ~panicked
    /\ conns[c].st = "none"
    /\ \A b \in ConnIDs : b < c => conns[b].st # "none"
    /\ IF upgraded
       THEN /\ conns' = [conns EXCEPT ![c] =
                   [NoClient EXCEPT !.st = "open", !.reader = "running",
                                    !.writer = "running"]]
            /\ pendingAdd' = pendingAdd \cup {c}
            /\ timers' = [timers EXCEPT ![c] = [NoTimer EXCEPT !.deadline = ReadWait]]
            /\ brokerLast' = [NoBrokerLast EXCEPT !.op = "handleWebSocket", !.conn = c]
       ELSE /\ brokerLast' = [NoBrokerLast EXCEPT !.op = "handleWebSocket", !.conn = c,
                                                 !.outcome = "failed to upgrade"]
            /\ UNCHANGED <<conns, pendingAdd, timers>>
    /\ UNCHANGED <<clients, messageQueue, routing, MessagesRouted, panicked, origin>>
    /\ UNCHANGED <<ratchetVars, appVars, clientVars, keyVars, uiVars>>

\* the s.addClient(client) that ends Server.handleWebSocket
addClient(c) ==
    /\ ~panicked
    /\ c \in pendingAdd
    /\ clients' = clients \cup {c}
    /\ pendingAdd' = pendingAdd \ {c}
    /\ brokerLast' = [NoBrokerLast EXCEPT !.op = "addClient", !.conn = c]
    /\ UNCHANGED <<conns, messageQueue, routing, MessagesRouted, panicked, origin, timers>>
    /\ UNCHANGED <<ratchetVars, appVars, clientVars, keyVars, uiVars>>

\* handleClientHello with a send that does not look at the capacity of Send
handleClientHello_Unbounded(c, msg) ==
    [conns[c] EXCEPT !.UserID = msg.From,
                     !.Send = Append(@, ServerHello(c, msg.From))]

\* ServerClient.handleClientHello: the client after it, and whether the
\* server_hello went into Send
handleClientHello(c, msg) ==
    IF Len(conns[c].Send) < SendCap
    THEN [conns[c] EXCEPT !.UserID = msg.From,
                          !.Send = Append(@, ServerHello(c, msg.From))]
    ELSE [conns[c] EXCEPT !.UserID = msg.From]

\* one turn of the loop of ServerClient.readMessages with a frame that was
\* read and parsed, and ServerClient.handleMessage on it
readMessages(c, msg) ==
    /\ ~panicked
    /\ conns[c].reader = "running"
    /\ conns[c].st = "open"
    /\ timers[c].deadline > 0
    /\ msg \in InboundFrames(Len(origin) + 1)
    /\ origin' = Append(origin, c)
    /\ timers' = [timers EXCEPT ![c].quiet = 0]
    /\ CASE msg.Type = "client_hello" ->
              /\ conns' = [conns EXCEPT ![c] = handleClientHello(c, msg)]
              /\ brokerLast' = [op |-> "client_hello", conn |-> c, id |-> msg.ID,
                                outcome |-> IF Len(conns[c].Send) < SendCap
                                            THEN "server_hello"
                                            ELSE "failed to send server hello"]
              /\ UNCHANGED messageQueue
         [] msg.Type = "chat" ->
              /\ IF msg.To = ""
                 THEN /\ brokerLast' = [op |-> "chat", conn |-> c, id |-> msg.ID,
                                        outcome |-> "missing destination"]
                      /\ UNCHANGED messageQueue
                 ELSE IF Len(messageQueue) < RouteCap
                 THEN /\ messageQueue' = Append(messageQueue,
                             RoutedMessage(conns[c].UserID, msg.To, msg))
                      /\ brokerLast' = [op |-> "chat", conn |-> c, id |-> msg.ID,
                                        outcome |-> "queued"]
                 ELSE /\ brokerLast' = [op |-> "chat", conn |-> c, id |-> msg.ID,
                                        outcome |-> "message queue full"]
                      /\ UNCHANGED messageQueue
              /\ UNCHANGED conns
         [] msg.Type = "presence" ->
              /\ brokerLast' = [op |-> "presence", conn |-> c, id |-> msg.ID,
                                outcome |-> "logged"]
              /\ UNCHANGED <<conns, messageQueue>>
         [] OTHER ->
              /\ brokerLast' = [op |-> msg.Type, conn |-> c, id |-> msg.ID,
                                outcome |-> "unknown message type"]
              /\ UNCHANGED <<conns, messageQueue>>
    /\ UNCHANGED <<clients, pendingAdd, routing, MessagesRouted, panicked>>
    /\ UNCHANGED <<ratchetVars, appVars, clientVars, keyVars, uiVars>>

\* Server.removeClient
removeClient(c) == [conns[c] EXCEPT !.sendClosed = TRUE]

\* ServerClient.readMessages when Conn.ReadMessage returns an error (the
\* peer went away, the connection was closed, or the read deadline passed):
\* the loop breaks and the deferred removeClient and Conn.Close run. The
\* times of a connection that timed out are kept, the others cleared.
readError(c) ==
    /\ ~panicked
    /\ conns[c].reader = "running"
    /\ clients' = clients \ {c}
    /\ conns' = [conns EXCEPT ![c] =
                    [removeClient(c) EXCEPT !.reader = "done", !.st = "closed"]]
    /\ brokerLast' = [NoBrokerLast EXCEPT !.op = "readError", !.conn = c,
                         !.outcome = IF timers[c].deadline <= 0 THEN "timeout"
                                     ELSE "closed"]
    /\ timers' = IF timers[c].deadline <= 0 THEN timers
                 ELSE [timers EXCEPT ![c] = NoTimer]
    /\ UNCHANGED <<pendingAdd, messageQueue, routing, MessagesRouted, panicked, origin>>
    /\ UNCHANGED <<ratchetVars, appVars, clientVars, keyVars, uiVars>>

\* one turn of ServerClient.writeMessages on the Send case; written:
\* Conn.WriteMessage succeeded. A closed and drained Send and a failed write
\* end the goroutine, whose deferred Conn.Close runs.
writeMessages(c, written) ==
    /\ ~panicked
    /\ conns[c].writer = "running"
    /\ conns[c].Send # <<>> \/ conns[c].sendClosed
    /\ IF conns[c].Send = <<>>
       THEN /\ conns' = [conns EXCEPT ![c].writer = "done", ![c].st = "closed"]
            /\ brokerLast' = [NoBrokerLast EXCEPT !.op = "writeMessages", !.conn = c,
                                                 !.outcome = "send closed"]
       ELSE IF written /\ conns[c].st = "open"
       THEN /\ conns' = [conns EXCEPT ![c].Send = Tail(@),
                                      ![c].written = Append(@, Head(conns[c].Send))]
            /\ brokerLast' = [op |-> "writeMessages", conn |-> c,
                              id |-> Head(conns[c].Send).ID, outcome |-> "written"]
       ELSE /\ conns' = [conns EXCEPT ![c].Send = Tail(@), ![c].writer = "done",
                                      ![c].st = "closed"]
            /\ brokerLast' = [op |-> "writeMessages", conn |-> c,
                              id |-> Head(conns[c].Send).ID,
                              outcome |-> "failed to write"]
    /\ UNCHANGED <<clients, pendingAdd, messageQueue, routing, MessagesRouted,
                   panicked, origin, timers>>
    /\ UNCHANGED <<ratchetVars, appVars, clientVars, keyVars, uiVars>>

\* Server.findClientByUserID: the clients the range over the map can return
\* (the iteration order of a map is not fixed); 0 is nil
findClientByUserID(userID) ==
    LET found == {c \in clients : conns[c].UserID = userID}
    IN  IF found = {} THEN {0} ELSE found

\* Server.messageRouter taking a message, and Server.routeMessage up to the
\* result of findClientByUserID, which releases the lock before the send
routeMessageFind(destClient) ==
    /\ ~panicked
    /\ ~routing.busy
    /\ messageQueue # <<>>
    /\ destClient \in findClientByUserID(Head(messageQueue).To)
    /\ messageQueue' = Tail(messageQueue)
    /\ IF destClient = 0
       THEN /\ brokerLast' = [op |-> "routeMessage", conn |-> 0,
                              id |-> Head(messageQueue).Message.ID,
                              outcome |-> "destination client not found"]
            /\ UNCHANGED routing
       ELSE /\ routing' = [busy |-> TRUE, msg |-> Head(messageQueue).Message,
                           dest |-> destClient]
            /\ brokerLast' = [op |-> "findClientByUserID", conn |-> destClient,
                              id |-> Head(messageQueue).Message.ID, outcome |-> "found"]
    /\ UNCHANGED <<conns, clients, pendingAdd, MessagesRouted, panicked, origin, timers>>
    /\ UNCHANGED <<ratchetVars, appVars, clientVars, keyVars, uiVars>>

\* the select of Server.routeMessage on destClient.Send; a send on a channel
\* that removeClient closed panics in the router goroutine
routeMessageSend ==
    /\ ~panicked
    /\ routing.busy
    /\ routing' = NotRouting
    /\ LET d == routing.dest
       IN  IF conns[d].sendClosed
           THEN /\ panicked' = TRUE
                /\ brokerLast' = [op |-> "routeMessage", conn |-> d,
                                  id |-> routing.msg.ID,
                                  outcome |-> "send on closed channel"]
                /\ UNCHANGED <<conns, MessagesRouted>>
           ELSE IF Len(conns[d].Send) < SendCap
           THEN /\ conns' = [conns EXCEPT ![d].Send = Append(@, routing.msg)]
                /\ MessagesRouted' = MessagesRouted + 1
                /\ brokerLast' = [op |-> "routeMessage", conn |-> d,
                                  id |-> routing.msg.ID, outcome |-> "routed"]
                /\ UNCHANGED panicked
           ELSE /\ brokerLast' = [op |-> "routeMessage", conn |-> d,
                                  id |-> routing.msg.ID,
                                  outcome |-> "destination client queue full"]
                /\ UNCHANGED <<conns, MessagesRouted, panicked>>
    /\ UNCHANGED <<clients, pendingAdd, messageQueue, origin, timers>>
    /\ UNCHANGED <<ratchetVars, appVars, clientVars, keyVars, uiVars>>

\* Server.handleStats: the snapshot it encodes
handleStats ==
    [ConnectedClients |-> Cardinality(clients), MessagesRouted |-> MessagesRouted]

NextBroker ==
    \/ \E c \in ConnIDs, upgraded \in BOOLEAN : handleWebSocket(c, upgraded)
    \/ \E c \in ConnIDs : addClient(c)
    \/ \E c \in ConnIDs : \E msg \in InboundFrames(Len(origin) + 1) :
          Len(origin) < MaxFrames /\ readMessages(c, msg)
    \/ \E c \in ConnIDs : readError(c)
    \/ \E c \in ConnIDs, written \in BOOLEAN : writeMessages(c, written)
    \/ \E d \in ConnIDs \cup {0} : routeMessageFind(d)
    \/ routeMessageSend

\* the relay while every connection stays up
NextUp ==
    \/ \E c \in ConnIDs : handleWebSocket(c, TRUE)
    \/ \E c \in ConnIDs : addClient(c)
    \/ \E c \in ConnIDs : \E msg \in InboundFrames(Len(origin) + 1) :
          Len(origin) < MaxFramesUp /\ readMessages(c, msg)
    \/ \E c \in ConnIDs : writeMessages(c, TRUE)
    \/ \E d \in ConnIDs \cup {0} : routeMessageFind(d)
    \/ routeMessageSend

SpecBroker == Init /\ [][NextBroker]_vars

SpecUp == Init /\ [][NextUp]_vars

\* the relay's queues: the frames of a user whose messages come back to it
\* (the relay does not look at From), so that both its Send and the
\* messageQueue fill
QueueFrames(id) ==
    {f \in InboundFrames(id) :
        \/ f.Type = "client_hello" /\ f.From = "bob"
        \/ f.Type = "chat" /\ f.To = "bob"}

\* one connection; frames enough to fill both queues and meet them full
QueueConns == {1}
MaxFramesQueue == SendCap + RouteCap + 1

NextQueue ==
    \/ \E c \in QueueConns : handleWebSocket(c, TRUE)
    \/ \E c \in ConnIDs : addClient(c)
    \/ \E c \in ConnIDs : \E msg \in QueueFrames(Len(origin) + 1) :
          Len(origin) < MaxFramesQueue /\ readMessages(c, msg)
    \/ \E c \in ConnIDs : readError(c)
    \/ \E c \in ConnIDs : writeMessages(c, TRUE)
    \/ \E d \in ConnIDs \cup {0} : routeMessageFind(d)
    \/ routeMessageSend

SpecQueue == Init /\ [][NextQueue]_vars

\* ---------------------------------------------------- relay, read limit
\* c.Conn.SetReadLimit(512): the largest frame Conn.ReadMessage hands over
ReadLimit == 512

\* the sizes in bytes of the frames a client sends: the largest frame that
\* passes and the smallest that does not
FrameSizes == {ReadLimit, ReadLimit + 1}

\* a frame with no read limit set on the connection
ExceedsReadLimit_NoLimit(size) == FALSE

\* Conn.ReadMessage gives up on a frame longer than the read limit
ExceedsReadLimit(size) == size > ReadLimit

\* ServerClient.readMessages when Conn.ReadMessage returns the read limit
\* error: the loop breaks before json.Unmarshal and handleMessage, and the
\* deferred removeClient and Conn.Close run
readLimitExceeded(c) ==
    /\ ~panicked
    /\ conns[c].reader = "running"
    /\ conns[c].st = "open"
    /\ timers[c].deadline > 0
    /\ clients' = clients \ {c}
    /\ conns' = [conns EXCEPT ![c] =
                    [removeClient(c) EXCEPT !.reader = "done", !.st = "closed"]]
    /\ brokerLast' = [NoBrokerLast EXCEPT !.op = "readError", !.conn = c,
                                         !.outcome = "read limit exceeded"]
    /\ timers' = [timers EXCEPT ![c] = NoTimer]
    /\ UNCHANGED <<pendingAdd, messageQueue, routing, MessagesRouted, panicked, origin>>
    /\ UNCHANGED <<ratchetVars, appVars, clientVars, keyVars, uiVars>>

\* one turn of the loop of ServerClient.readMessages on a frame of this
\* size that the client sent
readFrame(c, msg, size) ==
    IF ExceedsReadLimit(size) THEN readLimitExceeded(c) ELSE readMessages(c, msg)

\* the relay with one connection whose frames are of either size
NextLimit ==
    \/ \E c \in QueueConns : handleWebSocket(c, TRUE)
    \/ \E c \in ConnIDs : addClient(c)
    \/ \E c \in ConnIDs, size \in FrameSizes : \E msg \in QueueFrames(Len(origin) + 1) :
          Len(origin) < MaxFramesQueue /\ readFrame(c, msg, size)
    \/ \E c \in ConnIDs : readError(c)
    \/ \E c \in ConnIDs : writeMessages(c, TRUE)
    \/ \E d \in ConnIDs \cup {0} : routeMessageFind(d)
    \/ routeMessageSend

SpecLimit == Init /\ [][NextLimit]_vars

\* ---------------------------------------------------------- relay, time
\* the step of the clock, in seconds: the gap between the ping period and
\* the read deadline
TickSeconds == ReadWait - PingPeriod

\* the pong handler that readMessages installs: a pong is an inbound frame
\* and moves the read deadline
PongHandler_KeepsDeadline(t) ==
    [t EXCEPT !.quiet = 0, !.sincePong = 0, !.ponged = TRUE]

PongHandler(t) ==
    [t EXCEPT !.deadline = ReadWait, !.quiet = 0, !.sincePong = 0, !.ponged = TRUE]

\* a pong arrives on connection c while its ReadMessage is waiting
Pong(c) ==
    /\ ~panicked
    /\ conns[c].reader = "running"
    /\ conns[c].st = "open"
    /\ timers[c].deadline > 0
    /\ timers' = [timers EXCEPT ![c] = PongHandler(timers[c])]
    /\ brokerLast' = [NoBrokerLast EXCEPT !.op = "pong", !.conn = c]
    /\ UNCHANGED <<conns, clients, pendingAdd, messageQueue, routing, MessagesRouted,
                   panicked, origin>>
    /\ UNCHANGED <<ratchetVars, appVars, clientVars, keyVars, uiVars>>

\* the ticker case of ServerClient.writeMessages (the ticker is not timed
\* here); written: the ping was written. A failed write ends the goroutine,
\* whose deferred Conn.Close runs.
writePing(c, written) ==
    /\ ~panicked
    /\ conns[c].writer = "running"
    /\ IF written /\ conns[c].st = "open"
       THEN /\ brokerLast' = [NoBrokerLast EXCEPT !.op = "writePing", !.conn = c,
                                                 !.outcome = "written"]
            /\ UNCHANGED conns
       ELSE /\ conns' = [conns EXCEPT ![c].writer = "done", ![c].st = "closed"]
            /\ brokerLast' = [NoBrokerLast EXCEPT !.op = "writePing", !.conn = c,
                                                 !.outcome = "failed to write"]
    /\ UNCHANGED <<clients, pendingAdd, messageQueue, routing, MessagesRouted,
                   panicked, origin, timers>>
    /\ UNCHANGED <<ratchetVars, appVars, clientVars, keyVars, uiVars>>

\* TickSeconds pass. A ReadMessage whose deadline has passed, or whose
\* connection was closed, returns its error before more time passes, and
\* handleWebSocket reaches its addClient.
Tick ==
    /\ ~panicked
    /\ pendingAdd = {}
    /\ \E c \in ConnIDs : conns[c].reader = "running"
    /\ \A c \in ConnIDs : conns[c].reader = "running" =>
           conns[c].st = "open" /\ timers[c].deadline > 0
    /\ timers' = [c \in ConnIDs |->
                    IF conns[c].reader = "running"
                    THEN [timers[c] EXCEPT !.deadline = @ - TickSeconds,
                                           !.quiet = @ + TickSeconds,
                                           !.sincePong = @ + TickSeconds]
                    ELSE timers[c]]
    /\ brokerLast' = [NoBrokerLast EXCEPT !.op = "Tick"]
    /\ UNCHANGED <<conns, clients, pendingAdd, messageQueue, routing, MessagesRouted,
                   panicked, origin>>
    /\ UNCHANGED <<ratchetVars, appVars, clientVars, keyVars, uiVars>>

\* the data frames that arrive while the clock runs (handleMessage treats
\* every type alike as far as the times go)
LiveFrames(id) ==
    {f \in InboundFrames(id) : f.Type = "presence" \/ f = Frame(id, "chat", "alice", "bob")}

\* the relay's connections with the clock
NextLive ==
    \/ \E c \in 1..MaxLive : handleWebSocket(c, TRUE)
    \/ \E c \in ConnIDs : addClient(c)
    \/ \E c \in ConnIDs : \E msg \in LiveFrames(Len(origin) + 1) :
          Len(origin) < MaxFramesLive /\ readMessages(c, msg)
    \/ \E c \in ConnIDs : Pong(c)
    \/ \E c \in ConnIDs, written \in BOOLEAN : writePing(c, written)
    \/ \E c \in ConnIDs : readError(c)
    \/ Tick

SpecLive == Init /\ [][NextLive]_vars

\* ============================================================== claims
\* both sessions exist, were made from the same shared secret, and each
\* holds the other's current DH public key
Paired ==
    /\ dr["A"].exists /\ dr["B"].exists
    /\ secretOf["A"] = secretOf["B"]
    /\ dr["A"].DHRemote = dr["B"].DHSelf.PublicKey
    /\ dr["B"].DHRemote = dr["A"].DHSelf.PublicKey

\* the plaintexts the peer of s encrypted as message number n
PeerPlaintexts(s, n) ==
    {sent[Peer(s)][i].em.Ciphertext.pt :
        i \in {j \in DOMAIN sent[Peer(s)] : sent[Peer(s)][j].n = n}}

\* the receiving message number of the last call's session before that call
LastPreNr ==
    dr[last.side].ReceivingChain.MessageNumber - (IF last.ok THEN 1 ELSE 0)

\* C1: round trip between peers. Two sessions made from the same shared
\* secret, each holding the other's DH public key: a message returned by the
\* peer's Encrypt and handed to Decrypt in order, with the sender's message
\* number, decrypts to the plaintext that was encrypted.
C1_RoundTrip ==
    (/\ last.op = "Decrypt"
     /\ last.genuine
     /\ Paired
     /\ epoch[Peer(last.side)] = 0
     /\ last.n = LastPreNr)
    => (last.ok /\ last.pt \in PeerPlaintexts(last.side, last.n))

\* the bytes of an EncryptedMessage as a payload string
PayloadOf(em) ==
    <<TagSep>> \o em.Ciphertext.key \o <<TagSep>> \o em.Nonce
        \o <<TagSep>> \o em.Ciphertext.pt \o <<TagEnd>>

\* the payloads that carry something a session's Encrypt returned
SessionCiphertexts ==
    UNION {{PayloadOf(sent[s][i].em) : i \in DOMAIN sent[s]} : s \in Sides}

\* C2: no plaintext reaches the relay. Every chat message handed to the
\* network client, queued or already written to the relay connection, carries
\* ciphertext returned by a session's Encrypt.
C2_NoPlaintextToRelay ==
    /\ \A i \in DOMAIN outgoingMessages :
          outgoingMessages[i].Type = "chat"
              => outgoingMessages[i].Payload.content \in SessionCiphertexts
    /\ \A i \in DOMAIN relayWire :
          relayWire[i].Type = "chat"
              => relayWire[i].Payload.content \in SessionCiphertexts

\* C3: out-of-order tolerance. Messages of one sending chain of the peer,
\* handed to Decrypt in any order with their own message numbers, all
\* decrypt to their plaintexts.
C3_OutOfOrder ==
    (/\ last.op = "Decrypt"
     /\ last.genuine
     /\ Paired
     /\ epoch[Peer(last.side)] = 0)
    => (last.ok /\ last.pt \in PeerPlaintexts(last.side, last.n))

\* C4: a Decrypt call that fails leaves the whole session as it was: root
\* key, both chains with their message numbers, DH keys and counters.
C4_FailedDecryptKeepsState ==
    [][(last'.op = "Decrypt" /\ ~last'.ok) => dr' = dr]_vars

\* a Decrypt call on an existing session was refused
C4_Witness ==
    /\ last.op = "Decrypt"
    /\ ~last.ok
    /\ last.err = "failed to decrypt message"
    /\ dr[last.side].exists
    /\ steps > 0

\* the chain keys that the fields of a session give by the package's own
\* functions: the two current chain keys, the all-zero placeholder, and the
\* chain key that deriveChainKey gives for the stored root and DH keys
RecoverableChainKeys(d) ==
    { d.SendingChain.ChainKey, d.ReceivingChain.ChainKey, Zero32,
      deriveChainKey(d.RootKey, d.DHSelf.PublicKey, d.DHRemote) }

\* the message keys derivable from those chain keys
RecoverableMessageKeys(d) ==
    { deriveMessageKey(AdvanceTimes(ck, k), n) :
        ck \in RecoverableChainKeys(d), k \in 0..MaxSteps, n \in 0..MaxSteps }

\* C5: forward secrecy of the key state. Once Encrypt of a message has
\* completed, or Decrypt has accepted one, no later session state allows its
\* message key to be derived again.
C5_ForwardSecrecy ==
    \A s \in Sides :
        /\ \A i \in DOMAIN sent[s] :
              sent[s][i].em.Ciphertext.key \notin RecoverableMessageKeys(dr[s])
        /\ \A c \in consumed[s] :
              c.em.Ciphertext.key \notin RecoverableMessageKeys(dr[s])

U96(n) == LE32(n) \o <<0, 0, 0, 0, 0, 0, 0, 0>>

\* a session's Encrypt never used one (message key, nonce) pair twice
KeyNoncePairsUnique ==
    \A s \in Sides : \A i, j \in DOMAIN sent[s] :
        i # j => \/ sent[s][i].em.Ciphertext.key # sent[s][j].em.Ciphertext.key
                 \/ sent[s][i].em.Nonce # sent[s][j].em.Nonce

C8_KeyAgreement ==
    \A i \in Sides :
        LET r == Peer(i)
        IN  (/\ dr[i].exists /\ dr[r].exists
             /\ secretOf[i] = secretOf[r]
             /\ epoch[i] = 0
             /\ dr[r].DHRemote = dr[i].DHSelf.PublicKey
             /\ dr[r].ReceivingChain.MessageNumber = dr[i].SendingChain.MessageNumber)
            => (/\ dr[r].RootKey = dr[i].RootKey
                /\ dr[r].ReceivingChain.ChainKey = dr[i].SendingChain.ChainKey)

\* the skip limit per chain, scaled to the number of messages modelled
MaxSkipPerChain == MaxSteps - 2

\* C9: skip bound. The peer has sent more than the skip limit and the
\* receiver has decrypted nothing: Decrypt of the peer's latest message is
\* refused with TooManySkipped.
C9_SkipBound ==
    (/\ last.op = "Decrypt"
     /\ last.genuine
     /\ epoch[Peer(last.side)] = 0
     /\ Len(sent[Peer(last.side)]) > MaxSkipPerChain
     /\ last.n = Len(sent[Peer(last.side)]) - 1
     /\ LastPreNr = 0)
    => (~last.ok /\ last.err = "TooManySkipped")

\* setup is complete: the session exists and has received something, so its
\* receiving chain is no longer the placeholder NewDoubleRatchet left
IsActive(d) ==
    d.exists /\ d.ReceivingChain # [ChainKey |-> Zero32, MessageNumber |-> 0]

\* C10: session life cycle. A session that is not ACTIVE refuses Encrypt and
\* Decrypt and is not changed by them.
C10_OnlyActiveAccepts ==
    [][\A s \in Sides :
          (/\ ~IsActive(dr[s])
           /\ last'.side = s
           /\ last'.op \in {"Encrypt", "Decrypt"})
          => (~last'.ok /\ dr'[s] = dr[s])]_vars

\* --------------------------------------------------------- relay claims
\* the error envelopes with this code and this reference that are queued
\* for, or were written to, connection c
ErrorsTo(c, code, ref) ==
    {e \in {conns[c].Send[i] : i \in DOMAIN conns[c].Send}
           \cup {conns[c].written[i] : i \in DOMAIN conns[c].written} :
        /\ e.Type = "error"
        /\ e.Payload.code = code
        /\ e.Payload.ref = ref}

\* C11: at most one live client record is associated with a user id: when a
\* second connection says hello for a user id that has a record, the earlier
\* record is closed, so no two records of the client map carry the same user
\* id and every envelope to that user goes to the newer connection
C11_Supersession ==
    \A a, b \in clients :
        (conns[a].UserID # "" /\ conns[a].UserID = conns[b].UserID) => a = b

\* C12: when routeMessage finds no client record for the destination of a
\* chat envelope, the connection the envelope came on gets an error envelope
\* with code UserOffline and the id of the envelope
C12_OfflineAnswered ==
    (brokerLast.op = "routeMessage"
        /\ brokerLast.outcome = "destination client not found")
    => ErrorsTo(origin[brokerLast.id], "UserOffline", brokerLast.id) # {}

\* C13: a chat envelope is queued for routing only when the record it came
\* from has completed client_hello (is indexed by a user id); an envelope
\* from a record that is only connected is never enqueued
C13_AuthenticationGate ==
    (brokerLast.op = "chat" /\ brokerLast.outcome = "queued")
    => conns[brokerLast.conn].UserID # ""

\* C14: when an envelope is routed to a destination whose outbound queue is
\* full, the connection the envelope came on gets an error envelope with
\* code QueueFull
C14_Backpressure ==
    (brokerLast.op = "routeMessage"
        /\ brokerLast.outcome = "destination client queue full")
    => ErrorsTo(origin[brokerLast.id], "QueueFull", brokerLast.id) # {}

\* the chat envelopes written to any connection of the relay
WrittenChats ==
    UNION {{conns[c].written[i] : i \in DOMAIN conns[c].written} : c \in ConnIDs}

\* C15: when a chat envelope m1 is written to its destination, no chat
\* envelope m2 that the same connection submitted after m1 to the same
\* destination user has been written before it
C15_PerPairOrdering ==
    (brokerLast.op = "writeMessages" /\ brokerLast.outcome = "written"
        /\ brokerLast.id # 0)
    => LET w == conns[brokerLast.conn].written
           m1 == w[Len(w)]
       IN  \A m2 \in WrittenChats :
               ~ /\ m2.ID > m1.ID
                 /\ origin[m2.ID] = origin[m1.ID]
                 /\ m2.To = m1.To


\* C16: a connection on which no inbound frame arrives for 60 seconds is
\* closed and its client record removed (its reader is never still running
\* after more than 60 silent seconds, and at 60 its read has timed out), and
\* a connection is closed for inactivity only when more than 54 seconds have
\* passed since its last pong, so one that answers with a pong at least
\* every 54 seconds is never closed for inactivity
C16_Liveness ==
    /\ \A c \in ConnIDs :
          conns[c].reader = "running" =>
              /\ timers[c].quiet <= ReadWait
              /\ timers[c].quiet = ReadWait => timers[c].deadline <= 0
    /\ (brokerLast.op = "readError" /\ brokerLast.outcome = "timeout") =>
          /\ timers[brokerLast.conn].sincePong > PingPeriod
          /\ brokerLast.conn \notin clients
          /\ conns[brokerLast.conn].st = "closed"

\* a connection that got a data frame and a pong, and so stayed open past
\* its first deadline, was closed for inactivity after 60 seconds without
\* any frame
C16_Witness ==
    /\ brokerLast.op = "readError" /\ brokerLast.outcome = "timeout"
    /\ timers[brokerLast.conn].quiet = ReadWait
    /\ timers[brokerLast.conn].ponged
    /\ \E i \in DOMAIN origin : origin[i] = brokerLast.conn

\* C17: chat envelopes are rate limited per user id: with no time passing
\* to refill the bucket, at most the burst of envelopes of one user id is
\* accepted for routing and the excess is rejected with RateLimited, so the
\* routing queue never holds more than the burst from one user id
C17_RateLimited ==
    \A u \in BrokerUsers \cup {""} :
        Cardinality({i \in DOMAIN messageQueue : messageQueue[i].From = u}) <= RateBurst

\* C18: after an envelope of an unknown type the relay has answered the
\* connection with an error envelope and closed the connection
C18_UnknownTypeClosed ==
    (brokerLast.op = "bogus" /\ brokerLast.outcome = "unknown message type")
    => /\ \E e \in {conns[brokerLast.conn].Send[i] :
                       i \in DOMAIN conns[brokerLast.conn].Send} : e.Type = "error"
       /\ conns[brokerLast.conn].st = "closed"

\* C19: a client_hello is answered on its connection with a server_hello
\* that carries the connection's session id, and the statistics snapshot
\* then counts the user among authenticated_users
C19_HelloHandshake ==
    brokerLast.op = "client_hello"
    => /\ conns[brokerLast.conn].Send # <<>>
       /\ conns[brokerLast.conn].Send[Len(conns[brokerLast.conn].Send)]
              = ServerHello(brokerLast.conn, conns[brokerLast.conn].UserID)
       /\ "authenticated_users" \in DOMAIN handleStats
       /\ handleStats.authenticated_users >= 1


\* ------------------------------------------------------- client claims
\* C20: when the reconnection loop has used up its attempts and stops, the
\* host is told so: a PermanentlyDisconnected event is on its way to, or has
\* reached, the connection handler
C20_BoundedReconnection ==
    (appLast.op = "attemptReconnection"
        /\ appLast.err = "max reconnection attempts reached")
    => \/ "PermanentlyDisconnected" \in hostEvents
       \/ \E i \in DOMAIN connectionEvents : connectionEvents[i] = "PermanentlyDisconnected"

\* C21: once Disconnect has cancelled the client's context, no reconnection
\* loop calls Connect any more and SendMessage puts nothing more on the
\* outgoing queue
C21_Cancellation ==
    [][ctxDone =>
          /\ ~(/\ appLast'.op = "attemptReconnection"
               /\ appLast'.err \in {"reconnection successful", "already connected",
                                     "failed to connect to server"})
          /\ Len(outgoingMessages') <= Len(outgoingMessages)]_vars

\* ---------------------------------------------------------- key claims
\* C22: GetSafetyNumber(X, Y) equals GetSafetyNumber(Y, X), and the result
\* is 60 decimal digits written as 12 groups of 5 with a space between the
\* groups
C22_SafetyNumber ==
    safetyLast.called =>
        LET result == safetyLast.result
            digitAt == {p \in DOMAIN result :
                          \E d \in DOMAIN DecimalDigits : result[p] = DecimalDigits[d]}
        IN  /\ result = GetSafetyNumber(safetyLast.remoteIdentity,
                                        safetyLast.localIdentity)
            /\ Cardinality(digitAt) = 60
            /\ Len(result) = 12 * 5 + 11
            /\ \A p \in DOMAIN result : p \in digitAt <=> p % 6 # 0
            /\ \A p \in DOMAIN result : p % 6 = 0 => result[p] = " "

\* two different identities, the remote one first in the order of the keys
C22_Witness ==
    /\ safetyLast.called
    /\ safetyLast.localIdentity # safetyLast.remoteIdentity
    /\ StringLess(safetyLast.remoteIdentity.SigningKey.PublicKey
                      \o safetyLast.remoteIdentity.ExchangeKey.PublicKey,
                  safetyLast.localIdentity.SigningKey.PublicKey
                      \o safetyLast.localIdentity.ExchangeKey.PublicKey)
    /\ safetyLast.remoteIdentity.SigningKey.PublicKey # <<>>

\* C23: every one-time prekey ID issued is greater than all IDs issued
\* before it, so no ID is issued twice, also past the 32-bit range
C23_UniqueIncreasing ==
    \A i \in DOMAIN issued, j \in DOMAIN issued :
        i < j => LessU32(issued[i], issued[j])

\* C24: every run of the application that comes up has the identity of the
\* first such run: the same public keys and fingerprint, with its private
\* keys
C24_IdentityPersistence ==
    \A i \in DOMAIN appRuns, j \in DOMAIN appRuns :
        (i < j /\ appRuns[i].err = "" /\ appRuns[j].err = "") =>
            /\ appRuns[j].identity.Fingerprint = appRuns[i].identity.Fingerprint
            /\ appRuns[j].identity.SigningKey = appRuns[i].identity.SigningKey
            /\ appRuns[j].identity.ExchangeKey = appRuns[i].identity.ExchangeKey
            /\ appRuns[j].identity.SigningKey.PrivateKey # <<>>
            /\ appRuns[j].identity.ExchangeKey.PrivateKey # <<>>

\* -------------------------------------------------- session bookkeeping
\* the messages Encrypt returned to side s in its sending chain e, in order
ChainMessages(s, e) ==
    LET F[i \in 0..Len(sent[s])] ==
            IF i = 0 THEN <<>>
            ELSE IF sent[s][i].epoch = e THEN Append(F[i - 1], sent[s][i])
            ELSE F[i - 1]
    IN  F[Len(sent[s])]

\* C25: every message Encrypt returns carries a header with its number N,
\* and the k-th message of a sending chain was made with the number k-1, so
\* the numbers of a chain are consecutive from 0
C25_EncryptBookkeeping ==
    \A s \in Sides :
        /\ \A i \in DOMAIN sent[s] :
              /\ "Header" \in DOMAIN sent[s][i].em
              /\ sent[s][i].em.Header.N = sent[s][i].n
        /\ \A e \in 0..MaxRatchet :
              \A k \in DOMAIN ChainMessages(s, e) : ChainMessages(s, e)[k].n = k - 1

\* C26: an Encrypt call that returns an error leaves the sending chain key
\* and the sending message number as they were
C26_FailedEncryptKeepsState ==
    [][(last'.op = "Encrypt" /\ last'.err # "" /\ steps' = steps + 1) =>
          dr'[last'.side].SendingChain = dr[last'.side].SendingChain]_vars

\* a PerformDHRatchet call of side s that returned nil is this step
RatchetStep(s) == last'.op = "Ratchet" /\ last'.ok /\ epoch'[s] = epoch[s] + 1

\* C27: a DH ratchet step sets PreviousCounter to the message number the
\* replaced sending chain had reached
C27_PreviousChainLength ==
    [][\A s \in Sides :
          RatchetStep(s) =>
              dr'[s].PreviousCounter = dr[s].SendingChain.MessageNumber]_vars

\* C28: a DH ratchet step takes the remote key, makes a new own key pair,
\* replaces the root key and the keys of both chains, and sets both message
\* numbers to 0
C28_RatchetEffect ==
    [][\A s \in Sides :
          RatchetStep(s) =>
              /\ dr'[s].DHRemote \in RemotePublicKeys
              /\ dr'[s].DHSelf.PublicKey = X25519Base(dr'[s].DHSelf.PrivateKey)
              /\ dr'[s].RootKey # dr[s].RootKey
              /\ dr'[s].SendingChain.ChainKey # dr[s].SendingChain.ChainKey
              /\ dr'[s].ReceivingChain.ChainKey # dr[s].ReceivingChain.ChainKey
              /\ dr'[s].SendingChain.MessageNumber = 0
              /\ dr'[s].ReceivingChain.MessageNumber = 0]_vars

\* ------------------------------------------------ relay claims, routing
\* C29: a key_exchange frame of a client that has said hello is put on the
\* routing queue for its destination as a chat frame is, unless the queue
\* is full
C29_KeyExchangeRouted ==
    (brokerLast.op = "key_exchange" /\ conns[brokerLast.conn].UserID # "") =>
        /\ brokerLast.outcome \in {"queued", "message queue full"}
        /\ brokerLast.outcome = "queued" =>
              /\ messageQueue # <<>>
              /\ messageQueue[Len(messageQueue)].Message.ID = brokerLast.id
              /\ messageQueue[Len(messageQueue)].To = "bob"

\* C30: a client's Send never holds more than its capacity and the
\* messageQueue never more than its own; an enqueue onto a full queue is
\* given up at once and leaves the queue full; a reader with a frame and a
\* router with a message can always take their step, however full the
\* queues are
C30_BoundedQueues ==
    /\ \A c \in ConnIDs : Len(conns[c].Send) <= SendCap
    /\ Len(messageQueue) <= RouteCap
    /\ brokerLast.outcome = "message queue full" => Len(messageQueue) = RouteCap
    /\ brokerLast.outcome \in {"destination client queue full",
                                "failed to send server hello"} =>
           Len(conns[brokerLast.conn].Send) = SendCap
    /\ (routing.busy /\ ~panicked) => ENABLED routeMessageSend
    /\ \A c \in ConnIDs :
           (~panicked /\ conns[c].reader = "running" /\ conns[c].st = "open"
               /\ timers[c].deadline > 0) =>
              \A msg \in QueueFrames(Len(origin) + 1) : ENABLED readMessages(c, msg)

\* a chat frame has just been dropped at the full messageQueue while the
\* Send of a client is full as well
C30_Witness ==
    /\ brokerLast.op = "chat"
    /\ brokerLast.outcome = "message queue full"
    /\ Len(messageQueue) = RouteCap
    /\ \E c \in clients : Len(conns[c].Send) = SendCap /\ conns[c].reader = "running"

\* ---------------------------------------------------- relay claims, time
\* C31: every frame received restarts the 60-second deadline of its
\* connection, so a connection is closed for inactivity only when no frame
\* at all has arrived for 60 seconds
C31_AnyFrameIsActivity ==
    (brokerLast.op = "readError" /\ brokerLast.outcome = "timeout") =>
        timers[brokerLast.conn].quiet >= ReadWait

\* ----------------------------------------------- client claims, reconnection
\* C32: the wait after a failed reconnection attempt doubles with every
\* consecutive failed attempt, starting from the base delay, and is never
\* more than 60 seconds
C32_ExponentialBackoff ==
    (/\ appLast.op = "attemptReconnection"
     /\ appLast.err \in {"failed to connect to server", "already connected"}
     /\ reconnectAttempts >= 1) =>
        /\ appLast.delay <= MaxBackoff
        /\ appLast.delay =
              (IF reconnectDelay * 2 ^ (reconnectAttempts - 1) > MaxBackoff
               THEN MaxBackoff
               ELSE reconnectDelay * 2 ^ (reconnectAttempts - 1))

\* C33: while the client is connected, its context is live and no
\* reconnection loop runs, exactly one readMessages and exactly one
\* writeMessages goroutine run for it
C33_OneReaderOneWriter ==
    (isConnected /\ ~ctxDone /\ \A l \in LoopIDs : reconnectLoop[l] = "idle") =>
        tasks.readers = 1 /\ tasks.writers = 1

\* C37: at most one attemptReconnection loop runs for the client at any
\* time, also when the reader and the writer both report an error
C37_SingleReconnectionLoop ==
    Cardinality({l \in LoopIDs : reconnectLoop[l] # "idle"}) <= 1

\* ---------------------------------------------- relay claims, concurrency
\* C34: the router never sends onto the Send of a client after removeClient
\* has closed it, so the relay never panics
C34_NoSendOnClosedQueue == ~panicked

\* C35: a client whose reader has ended and whom removeClient has removed is
\* not in the client map
C35_OnlyLiveClients ==
    \A c \in ConnIDs :
        (conns[c].reader = "done" /\ conns[c].sendClosed) => c \notin clients

\* C36: a chat message the router has put on a destination's Send has the
\* From that its sending connection declared in its client_hello
C36_SenderAuthenticity ==
    (brokerLast.op = "routeMessage" /\ brokerLast.outcome = "routed") =>
        LET delivered == conns[brokerLast.conn].Send[Len(conns[brokerLast.conn].Send)]
        IN  delivered.From = conns[origin[delivered.ID]].UserID

\* ------------------------------------------------ session claims, order
\* C38: a Decrypt call succeeds only with the number the receiving chain
\* has reached, and a successful call raises that number by exactly one
C38_InOrderAcceptance ==
    [][\A s \in Sides :
          (last'.op = "Decrypt" /\ last'.ok /\ last'.side = s /\ dr'[s] # dr[s]) =>
              /\ last'.n = dr[s].ReceivingChain.MessageNumber
              /\ dr'[s].ReceivingChain.MessageNumber
                     = dr[s].ReceivingChain.MessageNumber + 1]_vars

\* ------------------------------------------------ relay claims, read limit
\* C39: a frame longer than 512 bytes is not parsed and not routed; the
\* read of it ends the connection's reader, closes the connection and
\* takes the client record out of the map
C39_OversizedFrames ==
    [][\A c \in ConnIDs, size \in FrameSizes :
          \A msg \in QueueFrames(Len(origin) + 1) :
              (size > 512 /\ readFrame(c, msg, size)) =>
                  /\ origin' = origin
                  /\ messageQueue' = messageQueue
                  /\ conns'[c].UserID = conns[c].UserID
                  /\ conns'[c].Send = conns[c].Send
                  /\ conns'[c].reader = "done"
                  /\ conns'[c].st = "closed"
                  /\ c \notin clients']_vars

\* a registered client whose oversized frame has just been read
C39_Witness ==
    /\ brokerLast.op = "readError"
    /\ brokerLast.outcome = "read limit exceeded"
    /\ conns[brokerLast.conn].UserID # ""
    /\ conns[brokerLast.conn].reader = "done"
    /\ brokerLast.conn \notin clients
    /\ pendingAdd = {}

\* ------------------------------------------------------ chat view claims
\* C40: after any keys and window sizes the cursor is within the input
\* line, and the slice that getVisibleMessages takes when View renders the
\* messages has 0 <= start <= end <= len(messages)
C40_ChatViewBounds ==
    /\ 0 <= chatView.cursor /\ chatView.cursor <= Len(chatView.input)
    /\ viewLast.out \in {"messages", "panic"} =>
          SliceInRange(viewLast.start, viewLast.end, Len(chatView.messages))

====
